---- MODULE Spec2Model ----
(***************************************************************************)
(* The three stages of the Suno video generator (src/legacy):               *)
(*   srt_to_prompts.py   subtitle parsing and prompt synthesis              *)
(*   generate_images.py  per-scene image acquisition loop                   *)
(*   assemble_video.py   ffmpeg concat list and the ffmpeg run              *)
(*                                                                         *)
(* Text is a sequence of one-character strings, so that strip, split,       *)
(* regular-expression matching, lower() and join are computed on the        *)
(* characters as the Python code computes them.  Times are integers in      *)
(* milliseconds: "00:01:30,500" is 90500 (the code's float 90.5).           *)
(***************************************************************************)
EXTENDS Integers, Sequences, FiniteSets, TLC

VARIABLES
    pc,             \* position in the running script
    \* parse_timestamp called on its own
    timestamp,      \* its argument
    ts_result,      \* its return value (ms)
    \* srt_to_prompts.py main
    argv,           \* sys.argv (argv[k + 1] is sys.argv[k])
    style_file,     \* the file sys.argv[3] names: whether it exists, its content
    srt_content,    \* content of the file sys.argv[1] names
    suno_style,     \* suno_style
    style_elements, \* style_elements
    base_style,     \* base_style
    segments,       \* segments
    prompt_data,    \* prompt_data
    i,              \* the index of enumerate(segments, 1)
    output,         \* the JSON document written to output_file, if written
    exit_status,    \* the status of sys.exit, or Running
    reported,       \* the error lines printed
    \* generate_image_prompt called on its own
    lyric_text,     \* its argument
    prompt,         \* its return value
    \* generate_images.py main
    img_segments,   \* data['segments']
    api_provider,   \* api_provider
    files,          \* the file names that exist in output_dir
    successful,     \* successful
    failed,         \* failed
    img_i,          \* the index of enumerate(segments, 1)
    handled,        \* the scene numbers announced ("Generating scene i/n")
    requests,       \* the file names for which an API request was sent
    \* assemble_video.py main
    asm_segments,   \* data['segments']
    images,         \* the file names that exist in images_dir
    missing,        \* missing
    concat,         \* the lines written to the concat file, in order
    concat_k,       \* the position of the loop of create_ffmpeg_concat_file
    concat_on_disk, \* whether the concat file exists
    asm_status      \* the status of sys.exit, or Running

tsVars == <<timestamp, ts_result>>

mainVars == <<argv, style_file, srt_content, suno_style, style_elements,
              base_style, segments, prompt_data, i, output, exit_status,
              reported>>

promptVars == <<lyric_text, prompt>>

imgVars == <<img_segments, api_provider, files, successful, failed, img_i,
             handled, requests>>

asmVars == <<asm_segments, images, missing, concat, concat_k, concat_on_disk,
             asm_status>>

vars == <<pc, tsVars, mainVars, promptVars, imgVars, asmVars>>

Running == "running"
Exit0 == "exit 0"
Exit1 == "exit 1"
None == "None"

\* a file that does not exist
NoFile == [exists |-> FALSE, content |-> <<>>]

\* output_file before json.dump
NoOutput == [written |-> FALSE]

-----------------------------------------------------------------------------
(* Characters and the str methods the scripts use.                          *)

NL == "\n"

Digits == <<"0","1","2","3","4","5","6","7","8","9">>

Uppers == <<"A","B","C","D","E","F","G","H","I","J","K","L","M","N","O","P","Q","R","S","T","U","V","W","X","Y","Z">>  \* "ABCDEFGHIJKLMNOPQRSTUVWXYZ"

Lowers == <<"a","b","c","d","e","f","g","h","i","j","k","l","m","n","o","p","q","r","s","t","u","v","w","x","y","z">>  \* "abcdefghijklmnopqrstuvwxyz"

IsDigit(c) == \E k \in 1..10 : Digits[k] = c

\* \s of the regular expressions, and the characters str.strip() removes
IsSpace(c) == c \in {" ", NL, "\t"}

\* int() of one decimal digit
DigitVal(c) == (CHOOSE k \in 1..10 : Digits[k] = c) - 1

\* str.lower() of one character
LowerChar(c) == IF \E k \in 1..26 : Uppers[k] = c
                THEN Lowers[CHOOSE k \in 1..26 : Uppers[k] = c] ELSE c

\* str.upper() of one character
UpperChar(c) == IF \E k \in 1..26 : Lowers[k] = c
                THEN Uppers[CHOOSE k \in 1..26 : Lowers[k] = c] ELSE c

\* str.lower()
Lower(s) == [k \in 1..Len(s) |-> LowerChar(s[k])]

\* str.capitalize(): first character upper-cased, the rest lower-cased
Capitalize(s) == [k \in 1..Len(s) |-> IF k = 1 THEN UpperChar(s[k]) ELSE LowerChar(s[k])]

\* s[a:b] with 0-based Python bounds already clamped: characters a+1..b
Slice(s, a, b) == IF b <= a THEN <<>> ELSE SubSeq(s, a + 1, b)

\* s.startswith(p, at) for a 0-based offset
StartsWithAt(s, p, at) ==
    /\ at + Len(p) <= Len(s)
    /\ \A k \in 1..Len(p) : s[at + k] = p[k]

\* p in s
Contains(s, p) == \E at \in 0..(Len(s) - Len(p)) : StartsWithAt(s, p, at)

\* str.isspace()
IsSpaceStr(s) == Len(s) > 0 /\ \A k \in 1..Len(s) : IsSpace(s[k])

\* str.strip()
Strip(s) ==
    LET keep == {k \in 1..Len(s) : ~IsSpace(s[k])}
    IN  IF keep = {} THEN <<>>
        ELSE LET lo == CHOOSE k \in keep : \A m \in keep : k <= m
                 hi == CHOOSE k \in keep : \A m \in keep : k >= m
             IN  SubSeq(s, lo, hi)

\* the length of the longest run of whitespace that starts at the 0-based
\* offset at: what a greedy \s* of a regular expression takes first
SpaceRun(s, at) ==
    CHOOSE n \in 0..(Len(s) - at) :
        /\ \A k \in 1..n : IsSpace(s[at + k])
        /\ (at + n = Len(s) \/ ~IsSpace(s[at + n + 1]))

\* sep.join(parts)
RECURSIVE Join(_, _)
Join(sep, parts) ==
    IF parts = <<>> THEN <<>>
    ELSE IF Len(parts) = 1 THEN parts[1]
    ELSE parts[1] \o sep \o Join(sep, Tail(parts))

\* s.split(sep) for a non-empty separator
RECURSIVE Split(_, _)
Split(s, sep) ==
    IF ~Contains(s, sep) THEN <<s>>
    ELSE LET at == CHOOSE a \in 0..(Len(s) - Len(sep)) :
                       /\ StartsWithAt(s, sep, a)
                       /\ \A b \in 0..(a - 1) : ~StartsWithAt(s, sep, b)
         IN  <<Slice(s, 0, at)>> \o Split(Slice(s, at + Len(sep), Len(s)), sep)

-----------------------------------------------------------------------------
(* The variables of a script that is not running.                           *)

IdleTs == timestamp = <<>> /\ ts_result = None

IdleMain ==
    /\ argv = <<>> /\ style_file = NoFile /\ srt_content = <<>>
    /\ suno_style = <<>> /\ style_elements = [k \in {} |-> <<>>]
    /\ base_style = <<>> /\ segments = <<>> /\ prompt_data = <<>> /\ i = 0
    /\ output = NoOutput /\ exit_status = Running /\ reported = <<>>

IdlePrompt == lyric_text = <<>> /\ prompt = <<>>

IdleImg ==
    /\ img_segments = <<>> /\ api_provider = None /\ files = {}
    /\ successful = 0 /\ failed = 0 /\ img_i = 0
    /\ handled = <<>> /\ requests = <<>>

IdleAsm ==
    /\ asm_segments = <<>> /\ images = {} /\ missing = <<>> /\ concat = <<>>
    /\ concat_k = 0 /\ concat_on_disk = FALSE /\ asm_status = Running

-----------------------------------------------------------------------------
(* srt_to_prompts.py: parse_timestamp                                       *)

\* int() of the two characters at 0-based offset at
Int2(s, at) == DigitVal(s[at + 1]) * 10 + DigitVal(s[at + 2])

\* int() of the three characters at 0-based offset at
Int3(s, at) == DigitVal(s[at + 1]) * 100 + DigitVal(s[at + 2]) * 10 + DigitVal(s[at + 3])

\* re.match(r'(\d{2}):(\d{2}):(\d{2}),(\d{3})', timestamp) succeeds.
\* re.match anchors the pattern at the start of the string only.
TimeMatch(t) ==
    /\ Len(t) >= 12
    /\ \A k \in {1, 2, 4, 5, 7, 8, 10, 11, 12} : IsDigit(t[k])
    /\ t[3] = ":" /\ t[6] = ":" /\ t[9] = ","

parse_timestamp(t) ==
    IF TimeMatch(t)
    THEN Int2(t, 0) * 3600000 + Int2(t, 3) * 60000 + Int2(t, 6) * 1000 + Int3(t, 9)
    ELSE 0

-----------------------------------------------------------------------------
(* srt_to_prompts.py: parse_srt                                             *)

\* the end (0-based, exclusive) of the match of r'\n\s*\n' that starts at the
\* 0-based offset at, or -1 when there is none: \s* is greedy and gives back
\* characters until a newline follows, so the match ends at the last newline
\* of the whitespace run that follows the first one
BlankMatchEnd(s, at) ==
    IF at >= Len(s) \/ s[at + 1] # NL THEN -1
    ELSE LET run == SpaceRun(s, at + 1)
             ends == {e \in (at + 2)..(at + 1 + run) : s[e] = NL}
         IN  IF ends = {} THEN -1
             ELSE CHOOSE e \in ends : \A f \in ends : f <= e

\* re.split(r'\n\s*\n', s)
RECURSIVE ReSplitBlank(_)
ReSplitBlank(s) ==
    LET starts == {a \in 0..(Len(s) - 1) : BlankMatchEnd(s, a) # -1}
    IN  IF starts = {} THEN <<s>>
        ELSE LET at == CHOOSE a \in starts : \A b \in starts : a <= b
             IN  <<Slice(s, 0, at)>>
                 \o ReSplitBlank(Slice(s, BlankMatchEnd(s, at), Len(s)))

\* [\d:,]
IsTsChar(c) == IsDigit(c) \/ c = ":" \/ c = ","

\* the length of the longest run of [\d:,] that starts at the 0-based offset
\* at: what the greedy [\d:,]+ takes
TsRun(s, at) ==
    CHOOSE n \in 0..(Len(s) - at) :
        /\ \A k \in 1..n : IsTsChar(s[at + k])
        /\ (at + n = Len(s) \/ ~IsTsChar(s[at + n + 1]))

\* re.match(r'([\d:,]+)\s*-->\s*([\d:,]+)', timestamp_line): the offsets of
\* the two groups, [matched |-> FALSE] when the line does not match
TimingMatch(line) ==
    LET a == TsRun(line, 0)
        b == a + SpaceRun(line, a)
        c == b + 3 + SpaceRun(line, b + 3)
        d == TsRun(line, c)
    IN  IF a >= 1 /\ StartsWithAt(line, <<"-","-",">">>, b) /\ c < Len(line) /\ d >= 1  \* "-->"
        THEN [matched |-> TRUE, start_ts |-> Slice(line, 0, a),
              end_ts |-> Slice(line, c, c + d)]
        ELSE [matched |-> FALSE, start_ts |-> <<>>, end_ts |-> <<>>]

\* block.strip().split('\n')
BlockLines(block) == Split(Strip(block), <<NL>>)

\* the segment dict appended for a block whose timing line matched
Segment(lines, m) ==
    LET start_sec == parse_timestamp(m.start_ts)
        end_sec == parse_timestamp(m.end_ts)
    IN  [start |-> start_sec,
         end |-> end_sec,
         duration |-> end_sec - start_sec,
         text |-> Strip(Join(<<" ">>, SubSeq(lines, 3, Len(lines))))]

\* one pass of the loop body over a block: the segments it appends
BlockSegments(block) ==
    LET lines == BlockLines(block)
    IN  IF Len(lines) < 3 THEN <<>>
        ELSE LET m == TimingMatch(lines[2])
             IN  IF m.matched THEN <<Segment(lines, m)>> ELSE <<>>

RECURSIVE ParseBlocks(_)
ParseBlocks(blocks) ==
    IF blocks = <<>> THEN <<>>
    ELSE BlockSegments(Head(blocks)) \o ParseBlocks(Tail(blocks))

parse_srt(content) == ParseBlocks(ReSplitBlank(Strip(content)))

-----------------------------------------------------------------------------
(* srt_to_prompts.py: load_suno_style, extract_style_elements               *)

\* a dict with no key: what extract_style_elements returns for an empty
\* style, and main's initial style_elements
EmptyDict == [k \in {} |-> <<>>]

\* d.get(key) where the code only tests the value's truth: a missing key
\* gives the empty (false) value
Get(d, key) == IF key \in DOMAIN d THEN d[key] ELSE <<>>

\* load_suno_style: the stripped content, "" when the file is not found
load_suno_style(file) == IF file.exists THEN Strip(file.content) ELSE <<>>

\* genre_map, in the order of the dict literal (the order items() yields)
genre_map == <<
    <<<<"e","l","e","c","t","r","o","n","i","c">>,  \* "electronic"
      <<"n","e","o","n",","," ","d","i","g","i","t","a","l",","," ","f","u","t","u","r","i","s","t","i","c">>>>,  \* "neon, digital, futuristic"
    <<<<"s","y","n","t","h","w","a","v","e">>,  \* "synthwave"
      <<"r","e","t","r","o","-","f","u","t","u","r","i","s","t","i","c",","," ","n","e","o","n",","," ","8","0","s"," ","a","e","s","t","h","e","t","i","c",","," ","p","u","r","p","l","e"," ","a","n","d"," ","p","i","n","k">>>>,  \* "retro-futuristic, neon, 80s aesthetic, purple and pink"
    <<<<"r","o","c","k">>,  \* "rock"
      <<"d","y","n","a","m","i","c",","," ","e","n","e","r","g","e","t","i","c",","," ","g","r","i","t","t","y">>>>,  \* "dynamic, energetic, gritty"
    <<<<"m","e","t","a","l">>,  \* "metal"
      <<"d","a","r","k",","," ","i","n","t","e","n","s","e",","," ","d","r","a","m","a","t","i","c"," ","l","i","g","h","t","i","n","g">>>>,  \* "dark, intense, dramatic lighting"
    <<<<"j","a","z","z">>,  \* "jazz"
      <<"m","o","o","d","y",","," ","n","o","i","r",","," ","s","o","p","h","i","s","t","i","c","a","t","e","d">>>>,  \* "moody, noir, sophisticated"
    <<<<"c","l","a","s","s","i","c","a","l">>,  \* "classical"
      <<"e","l","e","g","a","n","t",","," ","t","i","m","e","l","e","s","s",","," ","r","e","f","i","n","e","d">>>>,  \* "elegant, timeless, refined"
    <<<<"f","o","l","k">>,  \* "folk"
      <<"n","a","t","u","r","a","l",","," ","o","r","g","a","n","i","c",","," ","e","a","r","t","h","y">>>>,  \* "natural, organic, earthy"
    <<<<"c","o","u","n","t","r","y">>,  \* "country"
      <<"r","u","s","t","i","c",","," ","a","m","e","r","i","c","a","n","a",","," ","w","a","r","m"," ","t","o","n","e","s">>>>,  \* "rustic, americana, warm tones"
    <<<<"h","i","p","-","h","o","p">>,  \* "hip-hop"
      <<"u","r","b","a","n",","," ","v","i","b","r","a","n","t",","," ","s","t","r","e","e","t"," ","c","u","l","t","u","r","e">>>>,  \* "urban, vibrant, street culture"
    <<<<"a","m","b","i","e","n","t">>,  \* "ambient"
      <<"e","t","h","e","r","e","a","l",","," ","a","t","m","o","s","p","h","e","r","i","c",","," ","d","r","e","a","m","l","i","k","e">>>>,  \* "ethereal, atmospheric, dreamlike"
    <<<<"t","r","a","n","c","e">>,  \* "trance"
      <<"c","o","s","m","i","c",","," ","t","r","a","n","s","c","e","n","d","e","n","t",","," ","f","l","o","w","i","n","g">>>>,  \* "cosmic, transcendent, flowing"
    <<<<"h","o","u","s","e">>,  \* "house"
      <<"e","n","e","r","g","e","t","i","c",","," ","c","o","l","o","r","f","u","l",","," ","c","l","u","b"," ","a","t","m","o","s","p","h","e","r","e">>>>,  \* "energetic, colorful, club atmosphere"
    <<<<"t","e","c","h","n","o">>,  \* "techno"
      <<"i","n","d","u","s","t","r","i","a","l",","," ","m","i","n","i","m","a","l","i","s","t",","," ","s","t","a","r","k">>>>,  \* "industrial, minimalist, stark"
    <<<<"i","n","d","i","e">>,  \* "indie"
      <<"a","r","t","i","s","t","i","c",","," ","a","u","t","h","e","n","t","i","c",","," ","c","r","e","a","t","i","v","e">>>>,  \* "artistic, authentic, creative"
    <<<<"p","o","p">>,  \* "pop"
      <<"b","r","i","g","h","t",","," ","c","o","l","o","r","f","u","l",","," ","p","o","l","i","s","h","e","d">>>>,  \* "bright, colorful, polished"
    <<<<"s","o","u","l">>,  \* "soul"
      <<"w","a","r","m",","," ","e","m","o","t","i","o","n","a","l",","," ","i","n","t","i","m","a","t","e">>>>,  \* "warm, emotional, intimate"
    <<<<"b","l","u","e","s">>,  \* "blues"
      <<"m","o","o","d","y",","," ","e","m","o","t","i","o","n","a","l",","," ","a","t","m","o","s","p","h","e","r","i","c">>>>,  \* "moody, emotional, atmospheric"
    <<<<"p","u","n","k">>,  \* "punk"
      <<"r","a","w",","," ","r","e","b","e","l","l","i","o","u","s",","," ","h","i","g","h"," ","c","o","n","t","r","a","s","t">>>>,  \* "raw, rebellious, high contrast"
    <<<<"p","s","y","c","h","e","d","e","l","i","c">>,  \* "psychedelic"
      <<"s","u","r","r","e","a","l",","," ","c","o","l","o","r","f","u","l",","," ","m","i","n","d","-","b","e","n","d","i","n","g">>>>,  \* "surreal, colorful, mind-bending"
    <<<<"p","r","o","g","r","e","s","s","i","v","e">>,  \* "progressive"
      <<"c","o","m","p","l","e","x",","," ","l","a","y","e","r","e","d",","," ","e","v","o","l","v","i","n","g">>>>,  \* "complex, layered, evolving"
    <<<<"c","o","s","m","i","c">>,  \* "cosmic"
      <<"s","p","a","c","e",","," ","g","a","l","a","x","i","e","s",","," ","s","t","a","r","s",","," ","n","e","b","u","l","a","e">>>>,  \* "space, galaxies, stars, nebulae"
    <<<<"c","i","n","e","m","a","t","i","c">>,  \* "cinematic"
      <<"d","r","a","m","a","t","i","c",","," ","m","o","v","i","e","-","q","u","a","l","i","t","y",","," ","e","p","i","c">>>>,  \* "dramatic, movie-quality, epic"
    <<<<"o","r","c","h","e","s","t","r","a","l">>,  \* "orchestral"
      <<"g","r","a","n","d",","," ","s","w","e","e","p","i","n","g",","," ","m","a","j","e","s","t","i","c">>>> >>  \* "grand, sweeping, majestic"

\* mood_keywords
mood_keywords == <<
    <<"d","a","r","k">>,  \* "dark"
    <<"b","r","i","g","h","t">>,  \* "bright"
    <<"m","o","o","d","y">>,  \* "moody"
    <<"u","p","l","i","f","t","i","n","g">>,  \* "uplifting"
    <<"m","e","l","a","n","c","h","o","l","i","c">>,  \* "melancholic"
    <<"e","n","e","r","g","e","t","i","c">>,  \* "energetic"
    <<"c","a","l","m">>,  \* "calm"
    <<"i","n","t","e","n","s","e">>,  \* "intense"
    <<"d","r","e","a","m","y">>,  \* "dreamy"
    <<"p","o","w","e","r","f","u","l">>,  \* "powerful"
    <<"g","e","n","t","l","e">>,  \* "gentle"
    <<"d","r","a","m","a","t","i","c">> >>  \* "dramatic"

\* the visual_keywords after the loop over genre_map.items(), from entry k on
RECURSIVE GenreKeywords(_, _)
GenreKeywords(lower_style, k) ==
    IF k > Len(genre_map) THEN <<>>
    ELSE (IF Contains(lower_style, genre_map[k][1])
          THEN Split(genre_map[k][2], <<","," ">>) ELSE <<>>)  \* ", "
         \o GenreKeywords(lower_style, k + 1)

\* a faulty variant of FirstMood: the loop does not break, so that the last
\* mood word that occurs wins
RECURSIVE LastMood(_, _)
LastMood(lower_style, k) ==
    IF k > Len(mood_keywords) THEN <<>>
    ELSE LET later == LastMood(lower_style, k + 1)
         IN  IF later # <<>> THEN later
             ELSE IF Contains(lower_style, mood_keywords[k]) THEN mood_keywords[k]
             ELSE <<>>

\* the mood after the loop over mood_keywords, from entry k on: the loop
\* breaks at the first match
RECURSIVE FirstMood(_, _)
FirstMood(lower_style, k) ==
    IF k > Len(mood_keywords) THEN <<>>
    ELSE IF Contains(lower_style, mood_keywords[k]) THEN mood_keywords[k]
    ELSE FirstMood(lower_style, k + 1)

extract_style_elements(style) ==
    IF style = <<>> THEN EmptyDict
    ELSE LET lower_style == Lower(style)
         IN  [genre |-> <<>>,
              mood |-> FirstMood(lower_style, 1),
              atmosphere |-> <<>>,
              visual_keywords |-> GenreKeywords(lower_style, 1)]

-----------------------------------------------------------------------------
(* srt_to_prompts.py: generate_image_prompt                                 *)

\* structural_markers
structural_markers == <<
    <<"i","n","s","t","r","u","m","e","n","t","a","l">>,  \* "instrumental"
    <<"i","n","t","r","o">>,  \* "intro"
    <<"o","u","t","r","o">>,  \* "outro"
    <<"b","r","i","d","g","e">>,  \* "bridge"
    <<"s","o","l","o">>,  \* "solo"
    <<"b","r","e","a","k">>,  \* "break"
    <<"f","a","d","e">>,  \* "fade"
    <<"i","n","t","e","r","l","u","d","e">>,  \* "interlude"
    <<"c","h","o","r","u","s">>,  \* "chorus"
    <<"v","e","r","s","e">>,  \* "verse"
    <<"p","r","e","-","c","h","o","r","u","s">> >>  \* "pre-chorus"

\* "Abstract visual interpretation of the music"
ABSTRACT == <<"A","b","s","t","r","a","c","t"," ","v","i","s","u","a","l"," ","i","n","t","e","r","p","r","e","t","a","t","i","o","n"," ","o","f"," ","t","h","e"," ","m","u","s","i","c">>  \* "Abstract visual interpretation of the music"

\* "16:9 aspect ratio, high quality, cinematic composition"
TECHNICAL == <<"1","6",":","9"," ","a","s","p","e","c","t"," ","r","a","t","i","o",","," ","h","i","g","h"," ","q","u","a","l","i","t","y",","," ","c","i","n","e","m","a","t","i","c"," ","c","o","m","p","o","s","i","t","i","o","n">>  \* "16:9 aspect ratio, high quality, cinematic composition"

\* "scene depicting: "
SCENE == <<"s","c","e","n","e"," ","d","e","p","i","c","t","i","n","g",":"," ">>  \* "scene depicting: "

\* " atmosphere"
ATMOSPHERE == <<" ","a","t","m","o","s","p","h","e","r","e">>  \* " atmosphere"

\* re.sub(r'\([^)]*\)', '', s): the leftmost "(" that a ")" follows opens a
\* match, which ends at the first ")" after it; the scan goes on behind it
RECURSIVE RemoveParens(_)
RemoveParens(s) ==
    LET opens == {a \in 1..Len(s) : s[a] = "(" /\ \E b \in (a + 1)..Len(s) : s[b] = ")"}
    IN  IF opens = {} THEN s
        ELSE LET a == CHOOSE x \in opens : \A y \in opens : x <= y
                 b == CHOOSE x \in (a + 1)..Len(s) :
                          s[x] = ")" /\ \A y \in (a + 1)..(x - 1) : s[y] # ")"
             IN  SubSeq(s, 1, a - 1) \o RemoveParens(SubSeq(s, b + 1, Len(s)))

\* lines 143-147: the stripped lyric without its parenthesized spans
CleanLyric(text) == Strip(RemoveParens(Strip(text)))

\* lyric.startswith('[') and lyric.endswith(']')
IsBracketed(lyric) == Len(lyric) >= 1 /\ lyric[1] = "[" /\ lyric[Len(lyric)] = "]"

\* any(word in marker for word in structural_markers)
IsStructural(marker) ==
    \E k \in 1..Len(structural_markers) : Contains(marker, structural_markers[k])

\* a faulty variant of BracketLyric: the marker is not lower-cased before
\* it is compared with the structural markers
BracketLyricCaseSensitive(lyric) ==
    IF IsBracketed(lyric)
    THEN LET marker == Slice(lyric, 1, Len(lyric) - 1)
         IN  IF IsStructural(marker) THEN ABSTRACT
             ELSE Capitalize(marker) \o ATMOSPHERE
    ELSE lyric

\* lines 150-162: the bracket handling
BracketLyric(lyric) ==
    IF IsBracketed(lyric)
    THEN LET marker == Lower(Slice(lyric, 1, Len(lyric) - 1))
         IN  IF IsStructural(marker) THEN ABSTRACT
             ELSE Capitalize(marker) \o ATMOSPHERE
    ELSE lyric

\* a faulty variant of FallbackLyric: no fallback
NoFallbackLyric(lyric) == lyric

\* lines 165-166: the fallback for a lyric without content
FallbackLyric(lyric) == IF lyric = <<>> \/ IsSpaceStr(lyric) THEN ABSTRACT ELSE lyric

\* lines 143-166: the lyric that goes into the prompt
PromptLyric(text) == FallbackLyric(BracketLyric(CleanLyric(text)))

\* a faulty variant of Top3: the slice is forgotten
AllKeywords(keywords) == keywords

\* style_elements['visual_keywords'][:3]
Top3(keywords) == SubSeq(keywords, 1, IF Len(keywords) < 3 THEN Len(keywords) ELSE 3)

\* lines 169-184: prompt_parts
PromptParts(lyric, elements, base) ==
    <<base>>
    \o (IF Get(elements, "visual_keywords") # <<>>
        THEN <<Join(<<","," ">>, Top3(elements.visual_keywords))>> ELSE <<>>)  \* ", "
    \o (IF Get(elements, "mood") # <<>>
        THEN <<elements.mood \o ATMOSPHERE>> ELSE <<>>)
    \o <<SCENE \o lyric>>
    \o <<TECHNICAL>>

generate_image_prompt(text, elements, base) ==
    Join(<<" ","|"," ">>, PromptParts(PromptLyric(text), elements, base))  \* " | "

-----------------------------------------------------------------------------
(* srt_to_prompts.py: main                                                  *)

\* "photorealistic, cinematic": base_style when sys.argv[4] is absent
DEFAULT_BASE_STYLE == <<"p","h","o","t","o","r","e","a","l","i","s","t","i","c",","," ","c","i","n","e","m","a","t","i","c">>  \* "photorealistic, cinematic"

\* str(n) for n >= 0
RECURSIVE DecStr(_)
DecStr(n) == IF n < 10 THEN <<Digits[n + 1]>>
             ELSE DecStr(n \div 10) \o <<Digits[(n % 10) + 1]>>

\* f"{n:03d}": zero-padded to three digits, longer when n needs more
Pad03d(n) ==
    LET d == DecStr(n)
    IN  IF Len(d) >= 3 THEN d ELSE [k \in 1..(3 - Len(d)) |-> "0"] \o d

\* f"scene_{i:03d}.jpg"
Filename(n) == <<"s","c","e","n","e","_">> \o Pad03d(n) \o <<".","j","p","g">>  \* "scene_" ".jpg"

\* line 263: re.sub(r'\([^)]*\)', '', seg['text']).strip()
CleanedLyric(text) == Strip(RemoveParens(text))

\* a faulty variant of PromptRecord: enumerate(segments) counts from 0
PromptRecordFromZero(n, seg, elements, base) ==
    [sequence |-> n - 1,
     start |-> seg.start,
     end |-> seg.end,
     duration |-> seg.duration,
     lyric |-> seg.text,
     lyric_cleaned |-> CleanedLyric(seg.text),
     prompt |-> generate_image_prompt(seg.text, elements, base),
     filename |-> Filename(n - 1)]

\* lines 255-274: the dict appended to prompt_data for the pair (n, seg) of
\* enumerate(segments, 1)
PromptRecord(n, seg, elements, base) ==
    [sequence |-> n,
     start |-> seg.start,
     end |-> seg.end,
     duration |-> seg.duration,
     lyric |-> seg.text,
     lyric_cleaned |-> CleanedLyric(seg.text),
     prompt |-> generate_image_prompt(seg.text, elements, base),
     filename |-> Filename(n)]

\* lines 192-208: fewer than two arguments: usage, sys.exit(1)
Usage ==
    /\ pc = "main_args"
    /\ Len(argv) < 3
    /\ exit_status' = Exit1
    /\ pc' = "main_exit"
    /\ UNCHANGED <<argv, style_file, srt_content, suno_style, style_elements,
                   base_style, segments, prompt_data, i, output, reported>>
    /\ UNCHANGED <<tsVars, promptVars, imgVars, asmVars>>

\* lines 210-235: the arguments, the style file and its elements
LoadStyle ==
    /\ pc = "main_args"
    /\ Len(argv) >= 3
    /\ LET suno_style_file == IF Len(argv) > 3 THEN argv[4] ELSE <<>>
           loaded == IF suno_style_file # <<>> THEN load_suno_style(style_file)
                     ELSE <<>>
       IN  /\ suno_style' = loaded
           /\ style_elements' = IF loaded # <<>> THEN extract_style_elements(loaded)
                                ELSE EmptyDict
    /\ base_style' = IF Len(argv) > 4 THEN argv[5] ELSE DEFAULT_BASE_STYLE
    /\ pc' = "main_parse"
    /\ UNCHANGED <<argv, style_file, srt_content, segments, prompt_data, i,
                   output, exit_status, reported>>
    /\ UNCHANGED <<tsVars, promptVars, imgVars, asmVars>>

\* line 241: the message printed when parse_srt returns no segment
NO_SEGMENTS == <<"N","o"," ","s","e","g","m","e","n","t","s"," ","f","o","u","n","d"," ","i","n"," ","S","R","T"," ","f","i","l","e">>  \* "No segments found in SRT file"

\* a faulty variant of ParseSrt: without a segment the run ends with
\* status 0
ParseSrtExitsClean ==
    /\ pc = "main_parse"
    /\ segments' = parse_srt(srt_content)
    /\ IF segments' = <<>>
       THEN /\ reported' = Append(reported, NO_SEGMENTS)
            /\ exit_status' = Exit0
            /\ pc' = "main_exit"
            /\ i' = i
       ELSE /\ reported' = reported
            /\ exit_status' = exit_status
            /\ pc' = "main_loop"
            /\ i' = 1
    /\ prompt_data' = <<>>
    /\ UNCHANGED <<argv, style_file, srt_content, suno_style, style_elements,
                   base_style, output>>
    /\ UNCHANGED <<tsVars, promptVars, imgVars, asmVars>>

\* lines 237-252: parse; no segment is fatal
ParseSrt ==
    /\ pc = "main_parse"
    /\ segments' = parse_srt(srt_content)
    /\ IF segments' = <<>>
       THEN /\ reported' = Append(reported, NO_SEGMENTS)
            /\ exit_status' = Exit1
            /\ pc' = "main_exit"
            /\ i' = i
       ELSE /\ reported' = reported
            /\ exit_status' = exit_status
            /\ pc' = "main_loop"
            /\ i' = 1
    /\ prompt_data' = <<>>
    /\ UNCHANGED <<argv, style_file, srt_content, suno_style, style_elements,
                   base_style, output>>
    /\ UNCHANGED <<tsVars, promptVars, imgVars, asmVars>>

\* lines 254-281: one pass of the loop over enumerate(segments, 1)
GenerateRecord ==
    /\ pc = "main_loop"
    /\ i <= Len(segments)
    /\ prompt_data' = Append(prompt_data,
                             PromptRecord(i, segments[i], style_elements, base_style))
    /\ i' = i + 1
    /\ UNCHANGED <<pc, argv, style_file, srt_content, suno_style, style_elements,
                   base_style, segments, output, exit_status, reported>>
    /\ UNCHANGED <<tsVars, promptVars, imgVars, asmVars>>

\* lines 284-298: the output document
OutputDocument ==
    [written |-> TRUE,
     metadata |-> [suno_style_text |-> suno_style,
                   total_segments |-> Len(segments),
                   total_duration |-> segments[Len(segments)].end,
                   base_style |-> base_style,
                   extracted_style_elements |-> style_elements],
     segments |-> prompt_data]

\* lines 283-309: the loop is over; write the JSON file and return
SaveOutput ==
    /\ pc = "main_loop"
    /\ i > Len(segments)
    /\ output' = OutputDocument
    /\ exit_status' = Exit0
    /\ pc' = "main_done"
    /\ UNCHANGED <<argv, style_file, srt_content, suno_style, style_elements,
                   base_style, segments, prompt_data, i, reported>>
    /\ UNCHANGED <<tsVars, promptVars, imgVars, asmVars>>

-----------------------------------------------------------------------------
(* generate_images.py: main                                                 *)

\* what a call of generate_with_grok or generate_with_openai can come to:
\* the image is saved; the request or the download raises, so that no file
\* is written; the file is opened and the write raises
ApiOutcomes == {"saved", "request_error", "write_error"}

\* lines 54-91 (and 14-52): every exception is caught and turned into False
ApiSuccess(outcome) == outcome = "saved"

\* the files of output_dir after the call: open(output_file, 'wb') creates
\* the file
FilesAfterCall(fs, name, outcome) ==
    IF outcome = "request_error" THEN fs ELSE fs \cup {name}

\* lines 125-128: an unknown provider ends the run before the loop
InvalidProvider ==
    /\ pc = "img_args"
    /\ api_provider \notin {"grok", "openai"}
    /\ pc' = "img_exit"
    /\ UNCHANGED <<imgVars, tsVars, mainVars, promptVars, asmVars>>

\* lines 130-146: load the prompts, reset the counters
StartLoop ==
    /\ pc = "img_args"
    /\ api_provider \in {"grok", "openai"}
    /\ successful' = 0
    /\ failed' = 0
    /\ img_i' = 1
    /\ pc' = "img_loop"
    /\ UNCHANGED <<img_segments, api_provider, files, handled, requests>>
    /\ UNCHANGED <<tsVars, mainVars, promptVars, asmVars>>

\* lines 148-160: the target exists: count it as successful and continue
SkipExisting ==
    /\ pc = "img_loop"
    /\ img_i <= Len(img_segments)
    /\ img_segments[img_i].filename \in files
    /\ handled' = Append(handled, img_i)
    /\ successful' = successful + 1
    /\ img_i' = img_i + 1
    /\ UNCHANGED <<pc, img_segments, api_provider, files, failed, requests>>
    /\ UNCHANGED <<tsVars, mainVars, promptVars, asmVars>>

\* a faulty variant of CountCall: a failed call ends the loop
CountCallFailureStops(outcome) ==
    /\ handled' = Append(handled, img_i)
    /\ requests' = Append(requests, img_segments[img_i].filename)
    /\ files' = FilesAfterCall(files, img_segments[img_i].filename, outcome)
    /\ IF ApiSuccess(outcome)
       THEN successful' = successful + 1 /\ failed' = failed /\ pc' = pc
       ELSE failed' = failed + 1 /\ successful' = successful /\ pc' = "img_done"
    /\ img_i' = img_i + 1
    /\ UNCHANGED <<img_segments, api_provider>>
    /\ UNCHANGED <<tsVars, mainVars, promptVars, asmVars>>

\* lines 162-178: the counters and files after the provider's call
CountCall(outcome) ==
    /\ handled' = Append(handled, img_i)
    /\ requests' = Append(requests, img_segments[img_i].filename)
    /\ files' = FilesAfterCall(files, img_segments[img_i].filename, outcome)
    /\ IF ApiSuccess(outcome)
       THEN successful' = successful + 1 /\ failed' = failed
       ELSE failed' = failed + 1 /\ successful' = successful
    /\ img_i' = img_i + 1
    /\ UNCHANGED <<pc, img_segments, api_provider>>
    /\ UNCHANGED <<tsVars, mainVars, promptVars, asmVars>>

\* lines 148-178 with generate_with_grok
GenerateGrok ==
    /\ pc = "img_loop"
    /\ img_i <= Len(img_segments)
    /\ img_segments[img_i].filename \notin files
    /\ api_provider = "grok"
    /\ \E outcome \in ApiOutcomes : CountCall(outcome)

\* lines 148-178 with generate_with_openai
GenerateOpenAI ==
    /\ pc = "img_loop"
    /\ img_i <= Len(img_segments)
    /\ img_segments[img_i].filename \notin files
    /\ api_provider = "openai"
    /\ \E outcome \in ApiOutcomes : CountCall(outcome)

\* lines 180-188: the list is exhausted: the summary
Summary ==
    /\ pc = "img_loop"
    /\ img_i > Len(img_segments)
    /\ pc' = "img_done"
    /\ UNCHANGED <<imgVars, tsVars, mainVars, promptVars, asmVars>>

-----------------------------------------------------------------------------
(* assemble_video.py: create_ffmpeg_concat_file, main                       *)
(* A line of the concat file is a record: [file |-> path] for               *)
(* "file '<path>'" and [duration |-> d] for "duration <d>".                 *)

\* images_dir, given as an absolute path (os.path.abspath leaves the joined
\* path as it is)
IMAGES_DIR == <<"/","i","m","a","g","e","s">>  \* "/images"

\* os.path.join(images_dir, filename)
ImagePath(filename) == IMAGES_DIR \o <<"/">> \o filename

\* os.path.exists(os.path.join(images_dir, filename))
ImageExists(filename, dir) == filename \in dir

\* f"file '{os.path.abspath(image_path)}'\n"
FileLine(filename) == [file |-> ImagePath(filename)]

\* f"duration {segment['duration']}\n"
DurationLine(d) == [duration |-> d]

\* lines 125-129: the file names of the segments whose image is missing, in
\* segment order
RECURSIVE MissingImages(_, _)
MissingImages(segs, dir) ==
    IF segs = <<>> THEN <<>>
    ELSE (IF ImageExists(segs[1].filename, dir) THEN <<>> ELSE <<segs[1].filename>>)
         \o MissingImages(Tail(segs), dir)

\* a faulty variant of EntryLines: the duration is taken from the segment
\* before (the first segment keeps its own)
EntryLinesPreviousDuration(segs, k) ==
    <<FileLine(segs[k].filename),
      DurationLine(segs[IF k > 1 THEN k - 1 ELSE k].duration)>>

\* lines 28-29: the two lines written for the segment at position k
EntryLines(segs, k) ==
    <<FileLine(segs[k].filename), DurationLine(segs[k].duration)>>

\* lines 32-34: the line written after the loop, for segments[-1]; its image
\* is not looked up
LastLines(segs) ==
    IF segs # <<>> THEN <<FileLine(segs[Len(segs)].filename)>> ELSE <<>>

\* what input() can return at "Continue anyway? (y/n): "
Responses == {<<"y">>, <<"Y">>, <<"n">>, <<"y", "e", "s">>, <<>>}

\* what the ffmpeg run can come to: the video is written; ffmpeg returns 0
\* without an output file; ffmpeg fails (CalledProcessError)
FfmpegOutcomes == {"video", "no_video", "error"}

\* lines 114-137: load the timing data, collect the missing images
LoadAndVerify ==
    /\ pc = "asm_args"
    /\ missing' = MissingImages(asm_segments, images)
    /\ pc' = IF missing' # <<>> THEN "asm_confirm" ELSE "asm_concat"
    /\ UNCHANGED <<asm_segments, images, concat, concat_k, concat_on_disk,
                   asm_status>>
    /\ UNCHANGED <<tsVars, mainVars, promptVars, imgVars>>

\* lines 139-141: any answer but y or Y ends the run
Decline ==
    /\ pc = "asm_confirm"
    /\ \E response \in Responses : Lower(response) # <<"y">>
    /\ asm_status' = Exit1
    /\ pc' = "asm_exit"
    /\ UNCHANGED <<asm_segments, images, missing, concat, concat_k,
                   concat_on_disk>>
    /\ UNCHANGED <<tsVars, mainVars, promptVars, imgVars>>

\* lines 139-145: the answer y or Y: the run goes on with images missing
ContinueAnyway ==
    /\ pc = "asm_confirm"
    /\ \E response \in Responses : Lower(response) = <<"y">>
    /\ pc' = "asm_concat"
    /\ UNCHANGED <<asmVars, tsVars, mainVars, promptVars, imgVars>>

\* line 18: open(output_file, 'w') creates or truncates the concat file
OpenConcat ==
    /\ pc = "asm_concat"
    /\ concat' = <<>>
    /\ concat_on_disk' = TRUE
    /\ concat_k' = 1
    /\ pc' = "asm_concat_loop"
    /\ UNCHANGED <<asm_segments, images, missing, asm_status>>
    /\ UNCHANGED <<tsVars, mainVars, promptVars, imgVars>>

\* lines 19-25: the image of the segment is missing: warn and continue
SkipMissing ==
    /\ pc = "asm_concat_loop"
    /\ concat_k <= Len(asm_segments)
    /\ ~ImageExists(asm_segments[concat_k].filename, images)
    /\ concat_k' = concat_k + 1
    /\ UNCHANGED <<pc, asm_segments, images, missing, concat, concat_on_disk,
                   asm_status>>
    /\ UNCHANGED <<tsVars, mainVars, promptVars, imgVars>>

\* lines 19-29: the image exists: write its file and duration lines
WriteEntry ==
    /\ pc = "asm_concat_loop"
    /\ concat_k <= Len(asm_segments)
    /\ ImageExists(asm_segments[concat_k].filename, images)
    /\ concat' = concat \o EntryLines(asm_segments, concat_k)
    /\ concat_k' = concat_k + 1
    /\ UNCHANGED <<pc, asm_segments, images, missing, concat_on_disk,
                   asm_status>>
    /\ UNCHANGED <<tsVars, mainVars, promptVars, imgVars>>

\* lines 31-36, 145-146: the loop is over: write the last file line, close
\* the file and return
WriteLast ==
    /\ pc = "asm_concat_loop"
    /\ concat_k > Len(asm_segments)
    /\ concat' = concat \o LastLines(asm_segments)
    /\ pc' = "asm_ffmpeg"
    /\ UNCHANGED <<asm_segments, images, missing, concat_k, concat_on_disk,
                   asm_status>>
    /\ UNCHANGED <<tsVars, mainVars, promptVars, imgVars>>

\* lines 149-177: run ffmpeg; without a video the run fails and the concat
\* file stays; with one, os.remove deletes the concat file unless it raises
AssembleVideo ==
    /\ pc = "asm_ffmpeg"
    /\ \E outcome \in FfmpegOutcomes, removed \in BOOLEAN :
         IF outcome = "video"
         THEN /\ asm_status' = Exit0
              /\ concat_on_disk' = ~removed
              /\ pc' = "asm_done"
         ELSE /\ asm_status' = Exit1
              /\ concat_on_disk' = concat_on_disk
              /\ pc' = "asm_exit"
    /\ UNCHANGED <<asm_segments, images, missing, concat, concat_k>>
    /\ UNCHANGED <<tsVars, mainVars, promptVars, imgVars>>

-----------------------------------------------------------------------------
(* Inputs of the timestamp parser: a timestamp written field by field, each *)
(* field well-formed or not, followed by up to MaxTail more characters.     *)

MaxTail == 1

TailChars == {"9", "x", " "}

RECURSIVE StringsUpTo(_, _)
StringsUpTo(chars, n) ==
    IF n = 0 THEN {<<>>}
    ELSE LET shorter == StringsUpTo(chars, n - 1)
         IN  shorter \cup {s \o <<c>> : s \in shorter, c \in chars}

TimestampInputs ==
    {hh \o s1 \o mm \o s2 \o ss \o s3 \o ms \o tail :
        hh \in {<<"0","0">>, <<"0","1">>, <<"1">>},  \* "00" "01" "1"
        s1 \in {<<":">>, <<".">>},
        mm \in {<<"0","1">>, <<"5","9">>},  \* "01" "59"
        s2 \in {<<":">>, <<>>},
        ss \in {<<"3","0">>, <<"7">>},  \* "30" "7"
        s3 \in {<<",">>, <<".">>},
        ms \in {<<"5","0","0">>, <<"5","0">>, <<>>},  \* "500" "50" ""
        tail \in StringsUpTo(TailChars, MaxTail)}

InitTimestamp ==
    /\ pc = "ts_call"
    /\ timestamp \in TimestampInputs
    /\ ts_result = None
    /\ IdleMain /\ IdlePrompt /\ IdleImg /\ IdleAsm

CallParseTimestamp ==
    /\ pc = "ts_call"
    /\ ts_result' = parse_timestamp(timestamp)
    /\ pc' = "ts_return"
    /\ UNCHANGED <<timestamp, mainVars, promptVars, imgVars, asmVars>>

NextTimestamp == CallParseTimestamp

SpecTimestamp == InitTimestamp /\ [][NextTimestamp]_vars

-----------------------------------------------------------------------------
(* Inputs of srt_to_prompts.py: a subtitle document of up to MaxBlocks      *)
(* blocks, well-formed or not, and the optional arguments.                  *)

MaxBlocks == 2

\* blocks as they are written in a subtitle file
BlockPool == {
    \* a cue
    <<"1","\n","0","0",":","0","0",":","0","1",",","0","0","0"," ","-","-",">"," ","0","0",":","0","0",":","0","3",",","5","0","0","\n","H","e","l","l","o"," ","w","o","r","l","d">>,  \* "1\n00:00:01,000 --> 00:00:03,500\nHello world"
    \* a cue of a background vocal and a section label
    <<"2","\n","0","0",":","0","0",":","0","3",",","5","0","0"," ","-","-",">"," ","0","0",":","0","0",":","0","6",",","0","0","0","\n","(","o","o","h","s",")"," ","[","B","r","i","d","g","e","]">>,  \* "2\n00:00:03,500 --> 00:00:06,000\n(oohs) [Bridge]"
    \* a cue of two lines that ends before it starts, no space at the arrow
    <<"3","\n","0","0",":","0","0",":","0","9",",","0","0","0","-","-",">","0","0",":","0","0",":","0","7",",","0","0","0","\n","l","a","\n","l","a">>,  \* "3\n00:00:09,000-->00:00:07,000\nla\nla"
    \* a timing line of digits that are no timestamps
    <<"4","\n","1","2"," ","-","-",">"," ","3","4","\n","[","I","n","t","e","n","s","e","]"," ","a","n","d"," ","s","o"," ","m","u","c","h"," ","m","o","r","e"," ","t","o"," ","c","o","m","e">>,  \* "4\n12 --> 34\n[Intense] and so much more to come"
    \* a timing line with a wrong arrow
    <<"5","\n","0","0",":","0","0",":","0","1",",","0","0","0"," ","-",">"," ","0","0",":","0","0",":","0","2",",","0","0","0","\n","o","o","p","s">>,  \* "5\n00:00:01,000 -> 00:00:02,000\noops"
    \* a block without text
    <<"6","\n","0","0",":","0","0",":","0","6",",","0","0","0"," ","-","-",">"," ","0","0",":","0","0",":","0","8",",","0","0","0">> }  \* "6\n00:00:06,000 --> 00:00:08,000"

\* what separates two blocks: a blank line, or a line of one space
BlockSeparators == {<<"\n","\n">>, <<"\n"," ","\n">>}  \* "\n\n" "\n \n"

RECURSIVE SeqsUpTo(_, _)
SeqsUpTo(S, n) ==
    IF n = 0 THEN {<<>>}
    ELSE LET shorter == SeqsUpTo(S, n - 1)
         IN  shorter \cup {Append(q, x) : q \in shorter, x \in S}

Documents ==
    {Join(sep, blocks) \o <<NL>> :
        blocks \in SeqsUpTo(BlockPool, MaxBlocks), sep \in BlockSeparators}

PROG == <<"s","r","t","_","t","o","_","p","r","o","m","p","t","s",".","p","y">>  \* "srt_to_prompts.py"
SRT_PATH == <<"l","y","r","i","c","s",".","s","r","t">>  \* "lyrics.srt"
OUT_PATH == <<"p","r","o","m","p","t","s",".","j","s","o","n">>  \* "prompts.json"
STYLE_PATH == <<"s","u","n","o","_","p","r","o","m","p","t",".","t","x","t">>  \* "suno_prompt.txt"
PHOTOREALISTIC == <<"p","h","o","t","o","r","e","a","l","i","s","t","i","c">>  \* "photorealistic"

\* the style file's content, when it exists
STYLE_TEXT == <<" ","D","a","r","k"," ","s","y","n","t","h","w","a","v","e",","," ","e","n","e","r","g","e","t","i","c","\n">>  \* " Dark synthwave, energetic\n"

\* the command lines: too short; without, with an empty and with a named
\* style file; with and without a base style
Argvs ==
    {<<PROG, SRT_PATH>>, <<PROG, SRT_PATH, OUT_PATH>>}
    \cup {<<PROG, SRT_PATH, OUT_PATH, f>> : f \in {<<>>, STYLE_PATH}}
    \cup {<<PROG, SRT_PATH, OUT_PATH, f, PHOTOREALISTIC>> : f \in {<<>>, STYLE_PATH}}

Init ==
    /\ pc = "main_args"
    /\ argv \in Argvs
    /\ style_file \in
         IF Len(argv) > 3 /\ argv[4] = STYLE_PATH
         THEN {NoFile, [exists |-> TRUE, content |-> STYLE_TEXT]}
         ELSE {NoFile}
    /\ srt_content \in IF Len(argv) < 3 THEN {<<>>} ELSE Documents
    /\ suno_style = <<>> /\ style_elements = EmptyDict /\ base_style = <<>>
    /\ segments = <<>> /\ prompt_data = <<>> /\ i = 0
    /\ output = NoOutput /\ exit_status = Running /\ reported = <<>>
    /\ IdleTs /\ IdlePrompt /\ IdleImg /\ IdleAsm

Next == Usage \/ LoadStyle \/ ParseSrt \/ GenerateRecord \/ SaveOutput

Spec == Init /\ [][Next]_vars

-----------------------------------------------------------------------------
(* Inputs of the style extractor: up to MaxStyleWords words of a style      *)
(* description, separated by spaces.                                        *)

MaxStyleWords == 3

StyleWords == {<<"D","a","r","k">>, <<"e","n","e","r","g","e","t","i","c">>, <<"S","y","n","t","h","w","a","v","e">>, <<"r","o","c","k">>, <<"p","o","p","u","l","a","r">>, <<"b","a","l","l","a","d">>}  \* "Dark" "energetic" "Synthwave" "rock" "popular" "ballad"

StyleTexts == {Join(<<" ">>, words) : words \in SeqsUpTo(StyleWords, MaxStyleWords)}

InitStyle ==
    /\ pc = "style_call"
    /\ suno_style \in StyleTexts
    /\ argv = <<>> /\ style_file = NoFile /\ srt_content = <<>>
    /\ style_elements = EmptyDict /\ base_style = <<>>
    /\ segments = <<>> /\ prompt_data = <<>> /\ i = 0
    /\ output = NoOutput /\ exit_status = Running /\ reported = <<>>
    /\ IdleTs /\ IdlePrompt /\ IdleImg /\ IdleAsm

CallExtractStyle ==
    /\ pc = "style_call"
    /\ style_elements' = extract_style_elements(suno_style)
    /\ pc' = "style_return"
    /\ UNCHANGED <<argv, style_file, srt_content, suno_style, base_style,
                   segments, prompt_data, i, output, exit_status,
                   reported>>
    /\ UNCHANGED <<tsVars, promptVars, imgVars, asmVars>>

NextStyle == CallExtractStyle

SpecStyle == InitStyle /\ [][NextStyle]_vars

-----------------------------------------------------------------------------
(* Inputs of the prompt synthesizer: a cue of up to MaxCueParts parts       *)
(* separated by spaces, a StyleElements value and a base style.             *)

MaxCueParts == 3

\* a word, a background vocal, a section label, a mood label, an empty
\* bracket pair, an unclosed parenthesis, nothing
CueParts == {<<"l","o","v","e">>, <<"(","o","o","h",")">>, <<"[","B","r","i","d","g","e","]">>, <<"[","S","o","f","t","]">>, <<"[","]">>, <<"(">>, <<>>}  \* "love" "(ooh)" "[Bridge]" "[Soft]" "[]" "(" ""

CueTexts == {Join(<<" ">>, parts) : parts \in SeqsUpTo(CueParts, MaxCueParts)}

\* no style; a style of several genres and a mood; keywords without a mood;
\* a mood without keywords
ElementsInputs == {
    EmptyDict,
    extract_style_elements(<<"D","a","r","k"," ","s","y","n","t","h","w","a","v","e"," ","r","o","c","k">>),  \* "Dark synthwave rock"
    [genre |-> <<>>, mood |-> <<>>, atmosphere |-> <<>>,
     visual_keywords |-> <<<<"n","e","o","n">>, <<"d","i","g","i","t","a","l">>>>],  \* "neon" "digital"
    extract_style_elements(<<"c","a","l","m"," ","b","a","l","l","a","d">>) }  \* "calm ballad"

BaseStyles == {PHOTOREALISTIC, <<>>}

InitPrompt ==
    /\ pc = "prompt_call"
    /\ lyric_text \in CueTexts
    /\ style_elements \in ElementsInputs
    /\ base_style \in BaseStyles
    /\ prompt = <<>>
    /\ argv = <<>> /\ style_file = NoFile /\ srt_content = <<>>
    /\ suno_style = <<>> /\ segments = <<>> /\ prompt_data = <<>> /\ i = 0
    /\ output = NoOutput /\ exit_status = Running /\ reported = <<>>
    /\ IdleTs /\ IdleImg /\ IdleAsm

CallGeneratePrompt ==
    /\ pc = "prompt_call"
    /\ prompt' = generate_image_prompt(lyric_text, style_elements, base_style)
    /\ pc' = "prompt_return"
    /\ UNCHANGED <<lyric_text, mainVars, tsVars, imgVars, asmVars>>

NextPrompt == CallGeneratePrompt

SpecPrompt == InitPrompt /\ [][NextPrompt]_vars

-----------------------------------------------------------------------------
(* Inputs of generate_images.py: a prompts file of up to MaxScenes          *)
(* segments, any of whose images may exist already, and a provider.         *)

MaxScenes == 3

\* the segments of a prompts file that srt_to_prompts.py wrote for n cues
SceneList(n) == [k \in 1..n |-> [sequence |-> k, filename |-> Filename(k)]]

InitImages ==
    /\ pc = "img_args"
    /\ \E n \in 0..MaxScenes :  \* lines 94-123: the arguments and the API key are given
         /\ img_segments = SceneList(n)
         /\ files \in SUBSET {Filename(k) : k \in 1..n}
    /\ api_provider \in {"grok", "openai", "dalle"}
    /\ successful = 0 /\ failed = 0 /\ img_i = 0
    /\ handled = <<>> /\ requests = <<>>
    /\ IdleTs /\ IdleMain /\ IdlePrompt /\ IdleAsm

NextImages ==
    InvalidProvider \/ StartLoop \/ SkipExisting \/ GenerateGrok
    \/ GenerateOpenAI \/ Summary

SpecImages == InitImages /\ [][NextImages]_vars

\* every call returns (the requests carry timeouts) and the loop sleeps two
\* seconds at most between two passes: the script keeps taking steps
SpecImagesFair == SpecImages /\ WF_vars(NextImages)

-----------------------------------------------------------------------------
(* Inputs of assemble_video.py: a prompts file of up to MaxClips segments   *)
(* with the file names srt_to_prompts.py gives them, any of whose images    *)
(* may exist in images_dir.                                                 *)

MaxClips == 3

\* the durations (ms) of the segments of the prompts file
ClipDurations == {2000, 2500, 0}

\* the prompts files of n segments: what create_ffmpeg_concat_file reads of
\* a segment is its filename and its duration
ClipLists(n) ==
    {[k \in 1..n |-> [filename |-> Filename(k), duration |-> d[k]]] :
        d \in [1..n -> ClipDurations]}

InitAssemble ==
    /\ pc = "asm_args"
    /\ \E n \in 0..MaxClips :  \* lines 87-112: the arguments name existing files
         /\ asm_segments \in ClipLists(n)
         /\ images \in SUBSET {Filename(k) : k \in 1..n}
    /\ missing = <<>> /\ concat = <<>> /\ concat_k = 0
    /\ concat_on_disk = FALSE /\ asm_status = Running
    /\ IdleTs /\ IdleMain /\ IdlePrompt /\ IdleImg

NextAssemble ==
    LoadAndVerify \/ Decline \/ ContinueAnyway \/ OpenConcat \/ SkipMissing
    \/ WriteEntry \/ WriteLast \/ AssembleVideo

SpecAssemble == InitAssemble /\ [][NextAssemble]_vars

\* the shape DD:DD:DD,DDD and nothing else
ExactShape(t) ==
    /\ Len(t) = 12
    /\ \A k \in {1, 2, 4, 5, 7, 8, 10, 11, 12} : IsDigit(t[k])
    /\ t[3] = ":" /\ t[6] = ":" /\ t[9] = ","

\* C2: parse_timestamp returns 0 for every string that is not exactly of the
\* shape DD:DD:DD,DDD, and h*3600 + m*60 + s + ms/1000 (here in ms) only for
\* strings of exactly that shape.
C2_ZeroUnlessExactShape ==
    pc = "ts_return" =>
        ts_result = IF ExactShape(timestamp)
                    THEN Int2(timestamp, 0) * 3600000 + Int2(timestamp, 3) * 60000
                         + Int2(timestamp, 6) * 1000 + Int3(timestamp, 9)
                    ELSE 0

-----------------------------------------------------------------------------
(* Claims about srt_to_prompts.py as a whole (Spec).                        *)

\* the blocks of the subtitle document, as parse_srt splits it
DocumentBlocks == ReSplitBlank(Strip(srt_content))

\* main is past parse_srt
Parsed == pc \in {"main_loop", "main_done"} \/ (pc = "main_exit" /\ Len(argv) >= 3)

\* C1: for a document that yields at least one segment the driver emits
\* exactly one PromptRecord per parsed Segment, in the same order: record k
\* (1-based) has sequence k and the start, end, duration and raw text of
\* segment k.
C1_OneRecordPerSegment ==
    /\ pc = "main_loop" => Len(prompt_data) = i - 1
    /\ pc = "main_done" =>
         /\ Len(output.segments) = Len(segments)
         /\ \A k \in 1..Len(segments) :
              /\ output.segments[k].sequence = k
              /\ output.segments[k].start = segments[k].start
              /\ output.segments[k].end = segments[k].end
              /\ output.segments[k].duration = segments[k].duration
              /\ output.segments[k].lyric = segments[k].text

\* C1's case: a run that emitted MaxBlocks records for different cues
C1_Witness ==
    /\ pc = "main_done"
    /\ Len(output.segments) = MaxBlocks
    /\ output.segments[1].lyric # output.segments[2].lyric

\* a line of the form <timestamp> --> <timestamp>, both of the shape
\* DD:DD:DD,DDD
StrictTimingLine(line) ==
    \E a \in 0..Len(line), b \in 0..Len(line) :
        /\ 12 + a + 3 + b + 12 = Len(line)
        /\ ExactShape(Slice(line, 0, 12))
        /\ \A k \in 13..(12 + a) : IsSpace(line[k])
        /\ StartsWithAt(line, <<"-","-",">">>, 12 + a)  \* "-->"
        /\ \A k \in (12 + a + 4)..(12 + a + 3 + b) : IsSpace(line[k])
        /\ ExactShape(Slice(line, 12 + a + 3 + b, Len(line)))

\* the blocks C3 says yield a segment
StrictBlock(block) ==
    /\ Len(BlockLines(block)) >= 3
    /\ StrictTimingLine(BlockLines(block)[2])

\* C3: parse_srt produces a Segment for a block if and only if the block has
\* at least 3 lines and its second line has the form
\* <timestamp> --> <timestamp> with both sides of the shape DD:DD:DD,DDD;
\* every other block is skipped, and the segments are in document order.
C3_SegmentIffStrictBlock ==
    Parsed =>
        LET blocks == DocumentBlocks
            yields == SelectSeq(blocks, StrictBlock)
        IN  /\ Len(segments) = Len(yields)
            /\ \A k \in 1..Len(segments) :
                 segments[k] = BlockSegments(yields[k])[1]

\* C4: every Segment parse_srt returns has start >= 0 and end > start.
C4_EndAfterStart ==
    \A k \in 1..Len(segments) :
        segments[k].start >= 0 /\ segments[k].end > segments[k].start

\* the end-to-end scenario: two blocks with the cues "Hello world" and
\* "(oohs) [Bridge]", no style text, base style "photorealistic"
Scenario ==
    /\ pc = "main_done"
    /\ Len(DocumentBlocks) = 2
    /\ Len(segments) = 2
    /\ segments[1].text = <<"H","e","l","l","o"," ","w","o","r","l","d">>  \* "Hello world"
    /\ segments[2].text = <<"(","o","o","h","s",")"," ","[","B","r","i","d","g","e","]">>  \* "(oohs) [Bridge]"
    /\ suno_style = <<>>
    /\ base_style = PHOTOREALISTIC

\* C9 as stated: in the scenario the driver produces 2 PromptRecords, record
\* 2's lyric_cleaned is empty, and record 2's prompt contains
\* "scene depicting: Abstract visual interpretation of the music".
C9_AsStated ==
    Scenario =>
        /\ Len(output.segments) = 2
        /\ output.segments[2].lyric_cleaned = <<>>
        /\ Contains(output.segments[2].prompt, SCENE \o ABSTRACT)

\* C9 amended: in the scenario the driver produces 2 PromptRecords, record
\* 2's lyric_cleaned is "[Bridge]" (the parenthetical removed, the bracketed
\* label kept), and record 2's prompt contains
\* "scene depicting: Abstract visual interpretation of the music".
C9_Scenario ==
    Scenario =>
        /\ Len(output.segments) = 2
        /\ output.segments[2].lyric_cleaned = <<"[","B","r","i","d","g","e","]">>  \* "[Bridge]"
        /\ Contains(output.segments[2].prompt, SCENE \o ABSTRACT)

\* C9's case: the scenario has run to its end
C9_Witness == Scenario /\ output.written

-----------------------------------------------------------------------------
(* Claims about generate_image_prompt (SpecPrompt).                         *)

\* " | " and the technical literal: how every prompt must end
TAIL == <<" ","|"," ">> \o TECHNICAL  \* " | "

\* the text between an occurrence of "scene depicting: " at offset at and the
\* closing technical part
AfterScene(p, at) == Slice(p, at + Len(SCENE), Len(p) - Len(TAIL))

\* C5: generate_image_prompt maps every cue text and every StyleElements
\* value to a non-empty prompt whose "scene depicting: " part is followed by
\* non-empty, non-whitespace text.
C5_NonEmptyScene ==
    pc = "prompt_return" =>
        /\ prompt # <<>>
        /\ StartsWithAt(prompt, TAIL, Len(prompt) - Len(TAIL))
        /\ \E at \in 0..(Len(prompt) - Len(TAIL) - Len(SCENE)) :
             /\ StartsWithAt(prompt, SCENE, at)
             /\ AfterScene(prompt, at) # <<>>
             /\ ~IsSpaceStr(AfterScene(prompt, at))

\* C5's case: a cue without content (empty, blank, or only parenthesized
\* spans) and no style at all
C5_Witness ==
    /\ pc = "prompt_return"
    /\ lyric_text # <<>>
    /\ CleanLyric(lyric_text) = <<>>
    /\ style_elements = EmptyDict
    /\ base_style = <<>>

\* text wrapped in one bracket pair: "[", no bracket inside, "]"
SingleBracketPair(s) ==
    /\ Len(s) >= 2
    /\ s[1] = "[" /\ s[Len(s)] = "]"
    /\ \A k \in 2..(Len(s) - 1) : s[k] # "[" /\ s[k] # "]"

\* the lyric C6 describes for a cleaned text
ClaimedLyric(s) ==
    IF SingleBracketPair(s)
    THEN LET X == Slice(s, 1, Len(s) - 1)
         IN  IF IsStructural(Lower(X)) THEN ABSTRACT
             ELSE Capitalize(X) \o ATMOSPHERE
    ELSE IF s = <<>> THEN ABSTRACT
    ELSE s

\* C6: the lyric is rewritten only when the cleaned text is fully wrapped in
\* a single bracket pair [X] (a structural marker gives the abstract
\* literal, any other X gives "<X capitalized> atmosphere"); text that is
\* not a single bracket pair, such as lyric words between or around several
\* bracketed labels, is passed to the prompt unchanged.
C6_OnlySinglePairRewritten ==
    pc = "prompt_return" =>
        prompt = Join(<<" ","|"," ">>, PromptParts(ClaimedLyric(CleanLyric(lyric_text)),  \* " | "
                                          style_elements, base_style))

\* the first three keywords joined with ", ", written out
KeywordsPart(kw) ==
    IF Len(kw) = 1 THEN kw[1]
    ELSE IF Len(kw) = 2 THEN kw[1] \o <<","," ">> \o kw[2]  \* ", "
    ELSE kw[1] \o <<","," ">> \o kw[2] \o <<","," ">> \o kw[3]  \* ", " ", "

\* C7: the prompt is the base style; then, only if visual_keywords is
\* non-empty, " | " and its first 3 entries joined with ", "; then, only if a
\* mood is present, " | <mood> atmosphere"; then " | scene depicting: <cleaned
\* lyric>"; then " | 16:9 aspect ratio, high quality, cinematic composition".
C7_PartsInOrder ==
    pc = "prompt_return" =>
        LET kw == Get(style_elements, "visual_keywords")
            mood == Get(style_elements, "mood")
        IN  prompt = base_style
                     \o (IF kw # <<>> THEN <<" ","|"," ">> \o KeywordsPart(kw) ELSE <<>>)  \* " | "
                     \o (IF mood # <<>> THEN <<" ","|"," ">> \o mood \o ATMOSPHERE ELSE <<>>)  \* " | "
                     \o <<" ","|"," ">> \o SCENE \o PromptLyric(lyric_text)  \* " | "
                     \o TAIL

\* C7's case: more than three keywords and a mood
C7_Witness ==
    /\ pc = "prompt_return"
    /\ Len(Get(style_elements, "visual_keywords")) > 3
    /\ Get(style_elements, "mood") # <<>>
    /\ lyric_text = <<"l","o","v","e">>  \* "love"

-----------------------------------------------------------------------------
(* Claims about extract_style_elements (SpecStyle).                         *)

\* genre k of genre_map occurs in the lower-cased style text
GenreOccurs(k) == Contains(Lower(suno_style), genre_map[k][1])

\* the number of comma-separated parts of a description
PartCount(desc) == 1 + Cardinality({a \in 0..Len(desc) : StartsWithAt(desc, <<","," ">>, a)})  \* ", "

\* the number of keywords the genres before genre k contribute
RECURSIVE KeywordsBefore(_)
KeywordsBefore(k) ==
    IF k = 1 THEN 0
    ELSE KeywordsBefore(k - 1)
         + (IF GenreOccurs(k - 1) THEN PartCount(genre_map[k - 1][2]) ELSE 0)

\* the mood words that occur in the lower-cased style text
MoodsOccurring == {k \in 1..Len(mood_keywords) : Contains(Lower(suno_style), mood_keywords[k])}

\* C8: for a non-empty style text, visual_keywords is the concatenation, in
\* genre-table order, of the comma-separated parts of every genre whose
\* keyword occurs in the lower-cased text; mood is the first word of the
\* mood list that occurs, and only that one ("dark" when both "dark" and
\* "energetic" occur, wherever they stand in the text).
C8_TableOrderFirstMood ==
    (pc = "style_return" /\ suno_style # <<>>) =>
        LET kw == style_elements.visual_keywords
        IN  /\ Len(kw) = KeywordsBefore(Len(genre_map) + 1)
            /\ \A k \in 1..Len(kw) : ~Contains(kw[k], <<","," ">>)  \* ", "
            /\ \A g \in 1..Len(genre_map) :
                 GenreOccurs(g) =>
                     Join(<<","," ">>, SubSeq(kw, KeywordsBefore(g) + 1, KeywordsBefore(g + 1)))  \* ", "
                         = genre_map[g][2]
            /\ Contains(Lower(suno_style), <<"s","y","n","t","h","w","a","v","e">>) =>  \* "synthwave"
                 SubSeq(kw, 1, 4) = <<<<"r","e","t","r","o","-","f","u","t","u","r","i","s","t","i","c">>, <<"n","e","o","n">>,  \* "retro-futuristic" "neon"
                                      <<"8","0","s"," ","a","e","s","t","h","e","t","i","c">>, <<"p","u","r","p","l","e"," ","a","n","d"," ","p","i","n","k">>>>  \* "80s aesthetic" "purple and pink"
            /\ IF MoodsOccurring = {} THEN style_elements.mood = <<>>
               ELSE style_elements.mood =
                        mood_keywords[CHOOSE k \in MoodsOccurring :
                                          \A m \in MoodsOccurring : k <= m]
            /\ (Contains(Lower(suno_style), <<"d","a","r","k">>)  \* "dark"
                    /\ Contains(Lower(suno_style), <<"e","n","e","r","g","e","t","i","c">>)) =>  \* "energetic"
                 style_elements.mood = <<"d","a","r","k">>  \* "dark"

\* C8's case: "energetic" stands before "dark" in the text, and a genre
\* that is not the first of the table occurs before one that is earlier
C8_Witness ==
    /\ pc = "style_return"
    /\ suno_style = <<"e","n","e","r","g","e","t","i","c"," ","r","o","c","k"," ","D","a","r","k">>  \* "energetic rock Dark"
    /\ style_elements.mood = <<"d","a","r","k">>  \* "dark"
    /\ Len(style_elements.visual_keywords) = 3

-----------------------------------------------------------------------------
(* Claims about generate_images.py (SpecImagesFair).                        *)

\* every segment before img_i was handled once, in order, and counted once
HandledInOrder ==
    /\ \A k \in 1..Len(handled) : handled[k] = k
    /\ pc = "img_loop" => Len(handled) = img_i - 1
    /\ pc \in {"img_loop", "img_done"} => successful + failed = Len(handled)
    /\ pc = "img_done" =>
         /\ Len(handled) = Len(img_segments)
         /\ successful + failed = Len(img_segments)

\* one pass of the loop: an existing target is counted as successful without
\* a request; otherwise one request is sent and the segment is counted once,
\* as failed when the call fails; either way the loop goes on to the next
PassHandlesOne ==
    (pc = "img_loop" /\ img_i <= Len(img_segments)) =>
        /\ pc' = "img_loop"
        /\ img_i' = img_i + 1
        /\ handled' = Append(handled, img_i)
        /\ IF img_segments[img_i].filename \in files
           THEN /\ requests' = requests
                /\ successful' = successful + 1
                /\ failed' = failed
           ELSE /\ requests' = Append(requests, img_segments[img_i].filename)
                /\ \/ successful' = successful + 1 /\ failed' = failed
                   \/ successful' = successful /\ failed' = failed + 1

\* C10: the loop handles every segment of the prompts file exactly once, in
\* sequence order, and always runs to the end of the list: an existing
\* target is skipped without an API request and counted as successful; a
\* failed call is counted as failed and does not keep the later segments
\* from being processed; on completion successful + failed is the number of
\* segments.
C10_LoopHandlesEverySegment ==
    /\ []HandledInOrder
    /\ [][PassHandlesOne]_vars
    /\ (pc = "img_loop") ~> (pc = "img_done")

\* C10's case: a finished run over MaxScenes segments in which one target
\* existed, one call failed and a later call succeeded
C10_Witness ==
    /\ pc = "img_done"
    /\ Len(img_segments) = MaxScenes
    /\ Len(requests) = MaxScenes - 1
    /\ failed >= 1
    /\ successful >= 2
    /\ requests[Len(requests)] = Filename(MaxScenes)
    /\ Filename(1) \notin files

-----------------------------------------------------------------------------
(* Properties of assemble_video.py.                                         *)

\* the line is a "file" line
IsFileLine(line) == "file" \in DOMAIN line

\* the line is a "duration" line
IsDurationLine(line) == "duration" \in DOMAIN line

\* create_ffmpeg_concat_file has returned
ConcatReturned == pc = "asm_ffmpeg"

\* every segment's image is in images_dir
AllImagesExist ==
    \A k \in 1..Len(asm_segments) : asm_segments[k].filename \in images

\* the positions of the duration lines that follow a file line of segment k
DurationLinesOf(k) ==
    {p \in 2..Len(concat) :
        /\ IsDurationLine(concat[p])
        /\ IsFileLine(concat[p - 1])
        /\ concat[p - 1].file = ImagePath(asm_segments[k].filename)}

\* C11: when all images exist, the concat list that
\* create_ffmpeg_concat_file returns holds, for the segments in their order,
\* the file line of the segment's image followed by a duration line with the
\* segment's own duration, and ends with a file line of the final segment's
\* image that no duration line follows; every duration line belongs to the
\* image before it, and every segment has one duration line, not more.
C11_ConcatInSegmentOrder ==
    (ConcatReturned /\ AllImagesExist /\ asm_segments # <<>>) =>
        LET n == Len(asm_segments)
        IN  /\ Len(concat) = 2 * n + 1
            /\ \A k \in 1..n :
                 /\ IsFileLine(concat[2 * k - 1])
                 /\ concat[2 * k - 1].file = ImagePath(asm_segments[k].filename)
                 /\ IsDurationLine(concat[2 * k])
                 /\ concat[2 * k].duration = asm_segments[k].duration
            /\ IsFileLine(concat[2 * n + 1])
            /\ concat[2 * n + 1].file = ImagePath(asm_segments[n].filename)
            /\ \A p \in 1..Len(concat) :
                 IsDurationLine(concat[p]) =>
                     /\ p > 1
                     /\ IsFileLine(concat[p - 1])
                     /\ \E k \in 1..n :
                          /\ concat[p - 1].file = ImagePath(asm_segments[k].filename)
                          /\ concat[p].duration = asm_segments[k].duration
            /\ \A k \in 1..n : Cardinality(DurationLinesOf(k)) = 1

\* a list of three images, all present, whose durations differ from one
\* segment to the next, has been written
C11_Witness ==
    /\ ConcatReturned /\ AllImagesExist
    /\ Len(asm_segments) = 3
    /\ asm_segments[1].duration # asm_segments[2].duration
    /\ asm_segments[2].duration # asm_segments[3].duration
    /\ Len(concat) = 7

\* the file lines of the concat list name images that are in images_dir
FileLinesExist ==
    \A p \in 1..Len(concat) :
        IsFileLine(concat[p]) =>
            \E name \in images : concat[p].file = ImagePath(name)

\* a segment whose image is missing has no file line in the concat list
MissingContributesNothing ==
    \A k \in 1..Len(asm_segments) :
        asm_segments[k].filename \notin images =>
            \A p \in 1..Len(concat) :
                IsFileLine(concat[p]) =>
                    concat[p].file # ImagePath(asm_segments[k].filename)

\* C13: for every segment list and every set of existing images, each file
\* line that create_ffmpeg_concat_file writes names an image that exists in
\* images_dir, and a segment whose image is missing contributes no line,
\* whatever its position, the final one included.
C13_EveryFileLineExists ==
    ConcatReturned => (FileLinesExist /\ MissingContributesNothing)

-----------------------------------------------------------------------------
(* The zero-segment exit of srt_to_prompts.py (Spec).                       *)

\* the run has parsed the document and found no segment
NoSegmentRun == Parsed /\ parse_srt(srt_content) = <<>>

\* a run of zero segments is at the exit with status 1, has printed the
\* message, holds no prompt record and has written no output file
ZeroSegmentsFatal ==
    NoSegmentRun =>
        /\ pc = "main_exit"
        /\ exit_status = Exit1
        /\ reported = <<NO_SEGMENTS>>
        /\ prompt_data = <<>>
        /\ output = NoOutput

\* the output file is written only after at least one segment was parsed,
\* with the number of segments and the end of the final segment
OutputOnlyWithSegments ==
    output.written =>
        LET parsed == parse_srt(srt_content)
        IN  /\ Len(parsed) >= 1
            /\ output.metadata.total_segments = Len(parsed)
            /\ output.metadata.total_duration = parsed[Len(parsed)].end

\* C12: when parsing the subtitle document yields no segment the driver
\* prints the message and ends with status 1, without a prompt record and
\* without writing the output file, and takes no further step; the output
\* file is written only by runs that parsed at least one segment, and then
\* total_segments is the number of segments and total_duration the end of
\* the final segment.
C12_ZeroSegmentsFatal ==
    /\ [](ZeroSegmentsFatal /\ OutputOnlyWithSegments)
    /\ [][pc # "main_exit"]_vars

\* a document of MaxBlocks blocks, none of which gives a segment, has ended
\* the run
C12_Witness ==
    /\ NoSegmentRun
    /\ Len(DocumentBlocks) = MaxBlocks
    /\ pc = "main_exit"
    /\ exit_status = Exit1
    /\ output = NoOutput

====
